---- MODULE Spec2Model ----
(***************************************************************************)
(* The shipping calculator of nodejs/src/exercises/shipping-calculator.ts  *)
(* and the callers that exercise its exported functions.                   *)
(*                                                                         *)
(* Units: weights are hundredths of a kilogram (50 kg = 5000, 50.01 kg =   *)
(* 5001), dimensions are centimetres, money is cents, the fuel surcharge   *)
(* rate is in hundredths (0.15 = 15).  A string that is inspected          *)
(* character by character (a postal code) is a sequence of one-character   *)
(* strings; an error message is the sequence of its words, so that         *)
(* "contains" is a real sub-sequence search.                               *)
(***************************************************************************)
EXTENDS Integers, Sequences, FiniteSets, Bags, TLC

VARIABLES pc, call, result, ran, prev

\* basic-prompting-clean.ts: the clock, the module-level rate limit store, the
\* calls suspended at their await, the last result returned, and what the
\* callers have seen (admissions of the last window, latest call per IP)
VARIABLES now, rateLimitStore, awaiting, response, admitted, latestCall

shipVars == <<pc, call, result, ran, prev>>

authVars == <<now, rateLimitStore, awaiting, response, admitted, latestCall>>

vars == <<pc, call, result, ran, prev,
          now, rateLimitStore, awaiting, response, admitted, latestCall>>

(***************************************************************************)
(* Inputs                                                                  *)
(***************************************************************************)
Zip10001 == <<"1", "0", "0", "0", "1">>
Zip10002 == <<"1", "0", "0", "0", "2">>
Zip90210 == <<"9", "0", "2", "1", "0">>
ZipPlus4 == <<"1", "0", "0", "0", "1", "-", "1", "2", "3", "4">>
ZipShort == <<"1", "2", "3", "4">>
ZipPlus2 == <<"1", "0", "0", "0", "1", "-", "1", "2">>
ZipWords == <<"I", "N", "V", "A", "L", "I", "D">>

PostalCodes == {Zip10001, Zip10002, Zip90210, ZipPlus4, ZipShort, ZipPlus2, ZipWords}

Origins == {Zip10001, ZipPlus4, ZipWords}

Destinations == {Zip10002, Zip90210, ZipShort}

Weights == {-100, 0, 10, 100, 150, 1000, 5000, 5001, 5100}

DimensionSets ==
    { [length |-> 10, width |-> 10, height |-> 5],
      [length |-> 50, width |-> 40, height |-> 30],
      [length |-> 15, width |-> 15, height |-> 10],
      [length |-> 0,  width |-> 15, height |-> 10],
      [length |-> 20, width |-> -1, height |-> 10],
      [length |-> 20, width |-> 15, height |-> 0] }

ServiceTypes == {"standard", "express", "overnight"}

\* serviceType is a compile-time union only: at run time any string arrives
ServiceInputs == ServiceTypes \cup {"economy"}

DeclaredValues == {1000, 50000, 50001}

ShippingRequest ==
    [ weight : Weights, dimensions : DimensionSets, origin : Origins,
      destination : Destinations, serviceType : ServiceInputs,
      declaredValue : DeclaredValues ]

Calls ==
    { [fn |-> "calculateShipping", arg |-> r] : r \in ShippingRequest }
    \cup { [fn |-> "calculateDimensionalWeight", arg |-> d] : d \in DimensionSets }
    \cup { [fn |-> "getDistanceMultiplier", arg |-> od] : od \in Origins \X Destinations }
    \cup { [fn |-> "validatePostalCode", arg |-> p] : p \in PostalCodes }
    \cup { [fn |-> "getCurrentFuelSurchargeRate", arg |-> <<>>] }
    \cup { [fn |-> "GetServiceDetails", arg |-> sl] : sl \in ServiceInputs \X BOOLEAN }

(***************************************************************************)
(* Outcomes of a call.  An async function that throws settles its promise  *)
(* as rejected; a synchronous function that throws raises at the call.     *)
(***************************************************************************)
Pending == [kind |-> "pending"]

Returned(v) == [kind |-> "returned", value |-> v]

Rejected(e) == [kind |-> "rejected", error |-> e]

Thrown(e) == [kind |-> "thrown", error |-> e]

NoCall == [made |-> FALSE]

(***************************************************************************)
(* The exported functions                                                  *)
(***************************************************************************)
calculateShipping(request) ==
    Rejected(<<"Not", "implemented", "-", "use", "test-first", "approach",
               "with", "Copilot">>)

calculateDimensionalWeight(dimensions) ==
    Thrown(<<"Implement", "based", "on", "test", "requirements">>)

getDistanceMultiplier(origin, destination) ==
    Rejected(<<"Implement", "distance-based", "pricing">>)

validatePostalCode(postalCode) ==
    Thrown(<<"Implement", "postal", "code", "validation">>)

getCurrentFuelSurchargeRate == Returned(15)

(***************************************************************************)
(* ShippingCalculator.GetServiceDetails of the .NET track.  The enum       *)
(* members Standard, Express, Overnight are written as the TypeScript      *)
(* track writes them; any other enum value takes the discard arm.          *)
(***************************************************************************)
\* faulty variant: local express takes as long as local standard
GetServiceDetailsSlowLocalExpress(serviceType, isLocal) ==
    CASE serviceType = "standard" ->
            Returned([ ServiceLevel |-> "Standard Ground",
                       EstimatedDays |-> IF isLocal THEN 2 ELSE 5 ])
      [] serviceType = "express" ->
            Returned([ ServiceLevel |-> "Express Shipping",
                       EstimatedDays |-> IF isLocal THEN 2 ELSE 3 ])
      [] serviceType = "overnight" ->
            Returned([ ServiceLevel |-> "Overnight Express",
                       EstimatedDays |-> 1 ])
      [] OTHER -> Thrown(<<"ArgumentOutOfRangeException", "serviceType">>)

\* faulty variant: the overnight arm carries the express label
GetServiceDetailsCopiedLabel(serviceType, isLocal) ==
    CASE serviceType = "standard" ->
            Returned([ ServiceLevel |-> "Standard Ground",
                       EstimatedDays |-> IF isLocal THEN 2 ELSE 5 ])
      [] serviceType = "express" ->
            Returned([ ServiceLevel |-> "Express Shipping",
                       EstimatedDays |-> IF isLocal THEN 1 ELSE 3 ])
      [] serviceType = "overnight" ->
            Returned([ ServiceLevel |-> "Express Shipping",
                       EstimatedDays |-> 1 ])
      [] OTHER -> Thrown(<<"ArgumentOutOfRangeException", "serviceType">>)

GetServiceDetails(serviceType, isLocal) ==
    CASE serviceType = "standard" ->
            Returned([ ServiceLevel |-> "Standard Ground",
                       EstimatedDays |-> IF isLocal THEN 2 ELSE 5 ])
      [] serviceType = "express" ->
            Returned([ ServiceLevel |-> "Express Shipping",
                       EstimatedDays |-> IF isLocal THEN 1 ELSE 3 ])
      [] serviceType = "overnight" ->
            Returned([ ServiceLevel |-> "Overnight Express",
                       EstimatedDays |-> 1 ])
      [] OTHER -> Thrown(<<"ArgumentOutOfRangeException", "serviceType">>)

(***************************************************************************)
(* The caller                                                              *)
(***************************************************************************)
IPs == {"203.0.113.1", "203.0.113.2"}

\* const rateLimitStore = {}: no IP has an entry
EmptyStore == [ip \in {} |-> [count |-> 0, firstAttempt |-> 0]]

NoResponse == [made |-> FALSE]

\* the module of authenticateUser as loaded: nothing called yet
AuthStart ==
    /\ now = 0
    /\ rateLimitStore = EmptyStore
    /\ awaiting = EmptyBag
    /\ response = NoResponse
    /\ admitted = [ip \in IPs |-> <<>>]
    /\ latestCall = [ip \in IPs |-> -1]

Init ==
    /\ pc = "ready"
    /\ call \in Calls
    /\ result = Pending
    /\ ran = {}
    /\ prev = NoCall
    /\ AuthStart

CalculateShipping ==
    /\ pc = "ready"
    /\ call.fn = "calculateShipping"
    /\ result' = calculateShipping(call.arg)
    /\ ran' = {"calculateShipping"}
    /\ pc' = "settled"
    /\ UNCHANGED <<call, prev>>
    /\ UNCHANGED authVars

CalculateDimensionalWeight ==
    /\ pc = "ready"
    /\ call.fn = "calculateDimensionalWeight"
    /\ result' = calculateDimensionalWeight(call.arg)
    /\ ran' = {"calculateDimensionalWeight"}
    /\ pc' = "settled"
    /\ UNCHANGED <<call, prev>>
    /\ UNCHANGED authVars

GetDistanceMultiplier ==
    /\ pc = "ready"
    /\ call.fn = "getDistanceMultiplier"
    /\ result' = getDistanceMultiplier(call.arg[1], call.arg[2])
    /\ ran' = {"getDistanceMultiplier"}
    /\ pc' = "settled"
    /\ UNCHANGED <<call, prev>>
    /\ UNCHANGED authVars

ValidatePostalCode ==
    /\ pc = "ready"
    /\ call.fn = "validatePostalCode"
    /\ result' = validatePostalCode(call.arg)
    /\ ran' = {"validatePostalCode"}
    /\ pc' = "settled"
    /\ UNCHANGED <<call, prev>>
    /\ UNCHANGED authVars

GetCurrentFuelSurchargeRate ==
    /\ pc = "ready"
    /\ call.fn = "getCurrentFuelSurchargeRate"
    /\ result' = getCurrentFuelSurchargeRate
    /\ ran' = {"getCurrentFuelSurchargeRate"}
    /\ pc' = "settled"
    /\ UNCHANGED <<call, prev>>
    /\ UNCHANGED authVars

CallGetServiceDetails ==
    /\ pc = "ready"
    /\ call.fn = "GetServiceDetails"
    /\ result' = GetServiceDetails(call.arg[1], call.arg[2])
    /\ ran' = {"GetServiceDetails"}
    /\ pc' = "settled"
    /\ UNCHANGED <<call, prev>>
    /\ UNCHANGED authVars

\* a second lookup, for another service type or the other kind of route
NextServiceDetails ==
    /\ pc = "settled"
    /\ call.fn = "GetServiceDetails"
    /\ ~prev.made
    /\ \E sl \in (ServiceInputs \X BOOLEAN) \ {call.arg} :
          call' = [fn |-> "GetServiceDetails", arg |-> sl]
    /\ prev' = [made |-> TRUE, call |-> call, result |-> result]
    /\ result' = Pending
    /\ ran' = {}
    /\ pc' = "ready"
    /\ UNCHANGED authVars

\* { ...request, field: value }: a second request, one field replaced
Variants(request) ==
    ( { [request EXCEPT !.weight = w] : w \in Weights }
      \cup { [request EXCEPT !.dimensions = d] : d \in DimensionSets }
      \cup { [request EXCEPT !.origin = o] : o \in Origins }
      \cup { [request EXCEPT !.destination = o] : o \in Destinations }
      \cup { [request EXCEPT !.serviceType = s] : s \in ServiceInputs }
      \cup { [request EXCEPT !.declaredValue = v] : v \in DeclaredValues } )
    \ {request}

NextRequest ==
    /\ pc = "settled"
    /\ call.fn = "calculateShipping"
    /\ ~prev.made
    /\ \E r \in Variants(call.arg) :
          call' = [fn |-> "calculateShipping", arg |-> r]
    /\ prev' = [made |-> TRUE, call |-> call, result |-> result]
    /\ result' = Pending
    /\ ran' = {}
    /\ pc' = "ready"
    /\ UNCHANGED authVars

Next ==
    \/ CalculateShipping
    \/ CalculateDimensionalWeight
    \/ GetDistanceMultiplier
    \/ ValidatePostalCode
    \/ GetCurrentFuelSurchargeRate
    \/ CallGetServiceDetails
    \/ NextServiceDetails
    \/ NextRequest

Spec == Init /\ [][Next]_vars

(***************************************************************************)
(* Vocabulary of the properties                                            *)
(***************************************************************************)
\* String.prototype.includes / toContain on a message, word by word
Includes(text, phrase) ==
    \E i \in 1..(Len(text) - Len(phrase) + 1) :
        SubSeq(text, i, i + Len(phrase) - 1) = phrase

Digits == {"0", "1", "2", "3", "4", "5", "6", "7", "8", "9"}

\* ^\d{5}(-\d{4})?$
MatchesZipPattern(postalCode) ==
    \/ /\ Len(postalCode) = 5
       /\ \A i \in 1..5 : postalCode[i] \in Digits
    \/ /\ Len(postalCode) = 10
       /\ \A i \in 1..5 : postalCode[i] \in Digits
       /\ postalCode[6] = "-"
       /\ \A i \in 7..10 : postalCode[i] \in Digits

WeightLimit == 5000

MinimumCost == 500

IsSuccess(r) == r.kind = "returned" /\ r.value.success = TRUE

IsFailure(r) == r.kind = "returned" /\ r.value.success = FALSE

FailsWith(r, phrase) == IsFailure(r) /\ Includes(r.value.error, phrase)

PositiveDimensions(d) == d.length > 0 /\ d.width > 0 /\ d.height > 0

ValidWeight(request) == request.weight > 0 /\ request.weight <= WeightLimit

ValidPostalCodes(request) ==
    MatchesZipPattern(request.origin) /\ MatchesZipPattern(request.destination)

ValidRequest(request) ==
    /\ ValidWeight(request)
    /\ PositiveDimensions(request.dimensions)
    /\ ValidPostalCodes(request)
    /\ request.serviceType \in ServiceTypes

\* the first constraint a request violates, in the order of the validation phase
FirstViolation(request) ==
    IF request.weight <= 0 THEN "weight-positive"
    ELSE IF request.weight > WeightLimit THEN "weight-limit"
    ELSE IF ~PositiveDimensions(request.dimensions) THEN "dimensions"
    ELSE IF ~ValidPostalCodes(request) THEN "postal-code"
    ELSE IF request.serviceType \notin ServiceTypes THEN "service-type"
    ELSE "none"

ViolationPhrase(v) ==
    CASE v = "weight-positive" -> <<"Weight", "must", "be", "positive">>
      [] v = "weight-limit" -> <<"weight", "limit">>
      [] v = "dimensions" -> <<"Dimensions", "must", "be", "positive">>
      [] v = "postal-code" -> <<"postal", "code">>
      [] OTHER -> <<>>

PricingSteps == {"calculateDimensionalWeight", "getDistanceMultiplier",
                 "getCurrentFuelSurchargeRate"}

\* a call of calculateShipping has settled
Quoted == pc = "settled" /\ call.fn = "calculateShipping"

\* two calls of calculateShipping have settled, the second on a variant
QuotedTwice == Quoted /\ prev.made

(***************************************************************************)
(* Properties                                                              *)
(***************************************************************************)

\* Every call of calculateShipping settles as a rejected promise, whatever the
\* request: the body is a single throw.
CalculateShippingRejects == Quoted => result.kind = "rejected"

\* C1: every successful result of calculateShipping has
\* totalCost = baseRate + fuelSurcharge + insuranceFee.  (No call returns a
\* result, CalculateShippingRejects, so no state exercises the equation.)
C1_Additivity ==
    (Quoted /\ IsSuccess(result)) =>
        result.value.data.totalCost =
            result.value.data.baseRate + result.value.data.fuelSurcharge
            + result.value.data.insuranceFee

\* C2: for every request, valid or invalid, calculateShipping returns a result
\* value (success with a quote or failure with an error); it never throws.
C2_ReturnsResultValue ==
    Quoted => (IsSuccess(result) \/ IsFailure(result))

\* C3: a weight above 50 kg is rejected with an error containing "weight
\* limit"; an otherwise valid request of exactly 50 kg succeeds.
C3_WeightLimitInclusive ==
    Quoted =>
        /\ call.arg.weight > WeightLimit =>
               FailsWith(result, <<"weight", "limit">>)
        /\ (call.arg.weight = WeightLimit /\ ValidRequest(call.arg)) =>
               IsSuccess(result)

\* C4: a zero or negative weight is rejected with an error containing
\* "Weight must be positive", whatever the other fields are.
C4_WeightPositive ==
    (Quoted /\ call.arg.weight <= 0) =>
        FailsWith(result, <<"Weight", "must", "be", "positive">>)

\* C5: with a valid weight, a zero or negative length, width or height is
\* rejected with an error containing "Dimensions must be positive".
C5_DimensionsPositive ==
    (Quoted /\ ValidWeight(call.arg) /\ ~PositiveDimensions(call.arg.dimensions)) =>
        FailsWith(result, <<"Dimensions", "must", "be", "positive">>)

\* C6: with valid weight and dimensions, an origin or destination that is not
\* NNNNN or NNNNN-NNNN is rejected with an error containing "postal code";
\* validatePostalCode returns true exactly for strings of those two forms.
C6_PostalCodeFormat ==
    /\ ( Quoted /\ ValidWeight(call.arg)
         /\ PositiveDimensions(call.arg.dimensions)
         /\ ~ValidPostalCodes(call.arg) ) =>
           FailsWith(result, <<"postal", "code">>)
    /\ (pc = "settled" /\ call.fn = "validatePostalCode") =>
           result = Returned(MatchesZipPattern(call.arg))

\* C7: validation runs in the order weight-positive, weight-limit, dimensions,
\* postal codes, service type and stops at the first failure: the error is the
\* one of the earliest violated constraint, and no pricing step runs for a
\* request that fails validation.
C7_FirstFailureWins ==
    (Quoted /\ FirstViolation(call.arg) # "none") =>
        /\ FailsWith(result, ViolationPhrase(FirstViolation(call.arg)))
        /\ ran \cap PricingSteps = {}

\* C8: pricing uses max(actual weight, L x W x H / 5000): on the same route and
\* service a 1 kg package of 50x40x30 costs more in total than a 1 kg package
\* of 10x10x5, and a 10 kg package of 15x15x10 more than a 1.5 kg one.
C8_DimensionalWeightDominance ==
    LET bulky == [length |-> 50, width |-> 40, height |-> 30]
        small == [length |-> 10, width |-> 10, height |-> 5]
        dense == [length |-> 15, width |-> 15, height |-> 10]
        a == prev.call.arg
        b == call.arg
    IN  (QuotedTwice /\ ValidRequest(a) /\ ValidRequest(b)) =>
          /\ ( a.weight = 100 /\ a.dimensions = small
               /\ b = [a EXCEPT !.dimensions = bulky] ) =>
                 /\ IsSuccess(prev.result) /\ IsSuccess(result)
                 /\ result.value.data.totalCost > prev.result.value.data.totalCost
          /\ ( a.weight = 150 /\ a.dimensions = dense
               /\ b = [a EXCEPT !.weight = 1000] ) =>
                 /\ IsSuccess(prev.result) /\ IsSuccess(result)
                 /\ result.value.data.totalCost > prev.result.value.data.totalCost

\* C9: the standard base rate is never below 500 cents, so every successful
\* quote has totalCost >= 500, and the lightest valid package on the shortest
\* route (0.1 kg, 10x10x5, 10001 to 10002, standard, value 1000) is one.
C9_MinimumCost ==
    LET lightest == [ weight |-> 10,
                      dimensions |-> [length |-> 10, width |-> 10, height |-> 5],
                      origin |-> Zip10001, destination |-> Zip10002,
                      serviceType |-> "standard", declaredValue |-> 1000 ]
    IN  Quoted =>
          /\ IsSuccess(result) =>
                 /\ result.value.data.totalCost >= MinimumCost
                 /\ call.arg.serviceType = "standard" =>
                        result.value.data.baseRate >= MinimumCost
          /\ call.arg = lightest => IsSuccess(result)

\* C10: for two valid requests that differ only in serviceType the quoted base
\* rate is the standard base rate times the service multiplier: express is
\* 1.5 times and overnight 3.0 times the standard base rate.
C10_ServiceMultiplier ==
    LET a == prev.call.arg
        b == call.arg
    IN  ( QuotedTwice /\ ValidRequest(a) /\ a.serviceType = "standard"
          /\ ValidRequest(b) /\ b = [a EXCEPT !.serviceType = b.serviceType] ) =>
          /\ IsSuccess(prev.result) /\ IsSuccess(result)
          /\ b.serviceType = "express" =>
                 2 * result.value.data.baseRate = 3 * prev.result.value.data.baseRate
          /\ b.serviceType = "overnight" =>
                 result.value.data.baseRate = 3 * prev.result.value.data.baseRate

(***************************************************************************)
(* Service levels, surcharges, insurance, weight and distance              *)
(***************************************************************************)
\* Math.round(n / d) for n >= 0, d > 0
RoundDiv(n, d) == (2 * n + d) \div (2 * d)

InsuranceThreshold == 50000

\* a lookup of GetServiceDetails has settled
Looked == pc = "settled" /\ call.fn = "GetServiceDetails"

\* two lookups have settled, the second with other arguments
LookedTwice == Looked /\ prev.made

Total(r) == r.value.data.totalCost

Days(r) == r.value.data.estimatedDays

\* the second request is the first with only field f replaced
DiffersOnlyIn(a, b, f) ==
    \A g \in DOMAIN a : g # f => a[g] = b[g]

\* C11: for two valid requests that differ only in serviceType, standard and
\* express, the express totalCost differs from round(1.5 x standard totalCost)
\* by less than 10 cents.
C11_ExpressFiftyPercentHigher ==
    LET a == prev.call.arg
        b == call.arg
        expected == RoundDiv(3 * Total(prev.result), 2)
    IN  ( QuotedTwice /\ ValidRequest(a) /\ ValidRequest(b)
          /\ DiffersOnlyIn(a, b, "serviceType")
          /\ a.serviceType = "standard" /\ b.serviceType = "express" ) =>
          /\ IsSuccess(prev.result) /\ IsSuccess(result)
          /\ Total(result) - expected < 10
          /\ expected - Total(result) < 10

\* C12: for valid requests identical except for serviceType, overnight total >
\* express total > standard total, and estimatedDays(overnight) <
\* estimatedDays(express) <= estimatedDays(standard), on local and non-local
\* routes alike.
C12_ServiceOrdering ==
    /\ LET a == prev.call.arg
           b == call.arg
       IN  ( QuotedTwice /\ ValidRequest(a) /\ ValidRequest(b)
             /\ DiffersOnlyIn(a, b, "serviceType")
             /\ <<a.serviceType, b.serviceType>> \in
                    {<<"standard", "express">>, <<"express", "overnight">>} ) =>
             /\ IsSuccess(prev.result) /\ IsSuccess(result)
             /\ Total(result) > Total(prev.result)
             /\ Days(result) <= Days(prev.result)
    /\ ( LookedTwice /\ call.arg[2] = prev.call.arg[2]
         /\ prev.call.arg[1] = "standard" /\ call.arg[1] = "express" ) =>
           result.value.EstimatedDays <= prev.result.value.EstimatedDays
    /\ ( LookedTwice /\ call.arg[2] = prev.call.arg[2]
         /\ prev.call.arg[1] = "express" /\ call.arg[1] = "overnight" ) =>
           result.value.EstimatedDays < prev.result.value.EstimatedDays

\* C13: on the same route, local or not, the estimated days of express are
\* strictly fewer than the estimated days of standard.
C13_ExpressFasterThanStandard ==
    ( LookedTwice /\ call.arg[2] = prev.call.arg[2]
      /\ prev.call.arg[1] = "standard" /\ call.arg[1] = "express" ) =>
        /\ prev.result.kind = "returned" /\ result.kind = "returned"
        /\ result.value.EstimatedDays < prev.result.value.EstimatedDays

\* C13 witness: standard and then express looked up for a local route
C13_Witness ==
    /\ LookedTwice
    /\ prev.call.arg = <<"standard", TRUE>>
    /\ call.arg = <<"express", TRUE>>
    /\ result.kind = "returned"

\* C14: the estimated days lie in the documented range of the service type on
\* every route: standard 5 to 7, express 2 to 3, overnight exactly 1.
C14_EstimatedDaysInRange ==
    (Looked /\ result.kind = "returned") =>
        LET days == result.value.EstimatedDays
        IN  /\ call.arg[1] = "standard" => (5 <= days /\ days <= 7)
            /\ call.arg[1] = "express" => (2 <= days /\ days <= 3)
            /\ call.arg[1] = "overnight" => days = 1

\* C15: the serviceLevel label is determined by serviceType alone: standard
\* gives "Standard Ground", express "Express Shipping", overnight "Overnight
\* Express", whatever the route.
C15_ServiceLevelLabel ==
    (Looked /\ call.arg[1] \in ServiceTypes) =>
        /\ result.kind = "returned"
        /\ result.value.ServiceLevel =
             ( CASE call.arg[1] = "standard" -> "Standard Ground"
                 [] call.arg[1] = "express" -> "Express Shipping"
                 [] call.arg[1] = "overnight" -> "Overnight Express" )
        /\ ( prev.made /\ prev.call.arg[1] = call.arg[1] ) =>
               prev.result.value.ServiceLevel = result.value.ServiceLevel

\* C15 witness: overnight looked up for a non-local and then for a local route
C15_Witness ==
    /\ LookedTwice
    /\ prev.call.arg = <<"overnight", FALSE>>
    /\ call.arg = <<"overnight", TRUE>>
    /\ result.kind = "returned"

\* getCurrentFuelSurchargeRate returns 0.15
FuelSurchargeRateIsFifteenPercent ==
    (pc = "settled" /\ call.fn = "getCurrentFuelSurchargeRate") =>
        result = Returned(15)

\* C16: every successful quote carries fuelSurcharge = round(baseRate x 0.15),
\* the rate being the one getCurrentFuelSurchargeRate returns, and
\* fuelSurcharge > 0.  (No call returns a quote, CalculateShippingRejects, so
\* no state exercises the equation.)
C16_FuelSurcharge ==
    /\ FuelSurchargeRateIsFifteenPercent
    /\ (Quoted /\ IsSuccess(result)) =>
           /\ result.value.data.fuelSurcharge =
                  RoundDiv(result.value.data.baseRate * 15, 100)
           /\ result.value.data.fuelSurcharge > 0

\* C17: insuranceFee is round(declaredValue x 0.01) when declaredValue > 50000
\* and 0 otherwise: 50000 gives 0, 50001 gives a positive fee, and a
\* high-value request costs more in total than the same request with a
\* declared value at or below the threshold.
C17_InsuranceThreshold ==
    /\ (Quoted /\ ValidRequest(call.arg)) =>
           /\ IsSuccess(result)
           /\ result.value.data.insuranceFee =
                  ( IF call.arg.declaredValue > InsuranceThreshold
                    THEN RoundDiv(call.arg.declaredValue, 100) ELSE 0 )
           /\ call.arg.declaredValue = 50001 => result.value.data.insuranceFee > 0
    /\ ( QuotedTwice /\ ValidRequest(prev.call.arg) /\ ValidRequest(call.arg)
         /\ DiffersOnlyIn(prev.call.arg, call.arg, "declaredValue")
         /\ prev.call.arg.declaredValue <= InsuranceThreshold
         /\ call.arg.declaredValue > InsuranceThreshold ) =>
           /\ IsSuccess(prev.result) /\ IsSuccess(result)
           /\ Total(result) > Total(prev.result)

\* C18: for fixed dimensions, route, service type and declared value, totalCost
\* is non-decreasing in weight over (0, 50]: w1 <= w2 gives total(w1) <=
\* total(w2).
C18_MonotonicInWeight ==
    ( QuotedTwice /\ ValidRequest(prev.call.arg) /\ ValidRequest(call.arg)
      /\ DiffersOnlyIn(prev.call.arg, call.arg, "weight")
      /\ prev.call.arg.weight <= call.arg.weight ) =>
        /\ IsSuccess(prev.result) /\ IsSuccess(result)
        /\ Total(prev.result) <= Total(result)

\* C19: for equal weight, dimensions, declared value and service type, a local
\* shipment (10001 to 10002) has a strictly lower totalCost than a coast to
\* coast one (10001 to 90210), whose estimatedDays are at least the local ones.
C19_LocalCheaperThanCrossCountry ==
    ( QuotedTwice /\ ValidRequest(prev.call.arg) /\ ValidRequest(call.arg)
      /\ DiffersOnlyIn(prev.call.arg, call.arg, "destination")
      /\ prev.call.arg.origin = Zip10001
      /\ prev.call.arg.destination = Zip10002
      /\ call.arg.destination = Zip90210 ) =>
        /\ IsSuccess(prev.result) /\ IsSuccess(result)
        /\ Total(result) > Total(prev.result)
        /\ Days(result) >= Days(prev.result)

\* C22: a request whose serviceType is none of standard, express, overnight
\* gets a failure result returned as a value, and nothing throws for it: not
\* calculateShipping, and not the service-details lookup.
C22_InvalidServiceTypeIsAValue ==
    /\ (Quoted /\ call.arg.serviceType \notin ServiceTypes) => IsFailure(result)
    /\ (Looked /\ call.arg[1] \notin ServiceTypes) => result.kind = "returned"

(***************************************************************************)
(* authenticateUser of nodejs/src/examples/basic-prompting-clean.ts        *)
(* Times are milliseconds, as Date.now() gives them.  E-mail addresses and *)
(* passwords are sequences of one-character strings.                       *)
(***************************************************************************)
windowMs == 15 * 60 * 1000

maxAttempts == 5

PASSWORD_MIN_LENGTH == 8

\* the clock is read every half window at the finest
TickMs == windowMs \div 2

MaxTicks == 2

MaxAwaiting == 2

LowerLetters == {"a", "b", "c", "d", "e", "f", "g", "h", "i", "j", "k", "l", "m",
                 "n", "o", "p", "q", "r", "s", "t", "u", "v", "w", "x", "y", "z"}

UpperLetters == {"A", "B", "C", "D", "E", "F", "G", "H", "I", "J", "K", "L", "M",
                 "N", "O", "P", "Q", "R", "S", "T", "U", "V", "W", "X", "Y", "Z"}

Alphanumeric == LowerLetters \cup UpperLetters \cup Digits

LowerOf ==
    [ c \in UpperLetters |->
        CASE c = "A" -> "a" [] c = "B" -> "b" [] c = "C" -> "c" [] c = "D" -> "d"
          [] c = "E" -> "e" [] c = "F" -> "f" [] c = "G" -> "g" [] c = "H" -> "h"
          [] c = "I" -> "i" [] c = "J" -> "j" [] c = "K" -> "k" [] c = "L" -> "l"
          [] c = "M" -> "m" [] c = "N" -> "n" [] c = "O" -> "o" [] c = "P" -> "p"
          [] c = "Q" -> "q" [] c = "R" -> "r" [] c = "S" -> "s" [] c = "T" -> "t"
          [] c = "U" -> "u" [] c = "V" -> "v" [] c = "W" -> "w" [] c = "X" -> "x"
          [] c = "Y" -> "y" [] c = "Z" -> "z" ]

\* String.prototype.toLowerCase
ToLowerCase(str) ==
    [ i \in 1..Len(str) |-> IF str[i] \in UpperLetters THEN LowerOf[str[i]] ELSE str[i] ]

\* String.prototype.trim
Trim(str) ==
    LET inked == { i \in 1..Len(str) : str[i] # " " }
    IN  IF inked = {} THEN <<>>
        ELSE SubSeq(str,
                    CHOOSE i \in inked : \A j \in inked : i <= j,
                    CHOOSE i \in inked : \A j \in inked : j <= i)

\* the character class of the local part in emailRegex (the grave accent is
\* written by name)
EmailLocalChars ==
    Alphanumeric \cup {".", "!", "#", "$", "%", "&", "'", "*", "+", "/", "=", "?",
                       "^", "_", "grave", "{", "|", "}", "~", "-"}

\* the domain of emailRegex: labels of 1 to 63 letters, digits and inner
\* hyphens, joined by dots
MatchesDomain(d) ==
    LET n == Len(d)
    IN  /\ n >= 1
        /\ \A i \in 1..n : d[i] \in Alphanumeric \cup {"-", "."}
        /\ \A i \in 1..n :
              d[i] # "." =>
                /\ (i = 1 \/ d[i - 1] = ".") => d[i] \in Alphanumeric
                /\ (i = n \/ d[i + 1] = ".") => d[i] \in Alphanumeric
        /\ d[1] # "." /\ d[n] # "."
        /\ \A i \in 1..(n - 1) : ~(d[i] = "." /\ d[i + 1] = ".")
        /\ \A i \in 1..(n - 63) : \E j \in i..(i + 63) : d[j] = "."

\* emailRegex.test(trimmed)
MatchesEmailRegex(str) ==
    \E k \in 2..(Len(str) - 1) :
        /\ str[k] = "@"
        /\ \A i \in 1..(k - 1) : str[i] \in EmailLocalChars
        /\ MatchesDomain(SubSeq(str, k + 1, Len(str)))

Ok(v) == [success |-> TRUE, data |-> v]

Fail(e) == [success |-> FALSE, error |-> e]

validateEmailImproved(email) ==
    LET trimmed == Trim(email)
        at == CHOOSE k \in 1..Len(trimmed) : trimmed[k] = "@"
    IN  IF Len(trimmed) = 0 THEN Fail("Email is required")
        ELSE IF Len(trimmed) > 254 THEN Fail("Email too long (max 254 characters)")
        ELSE IF ~MatchesEmailRegex(trimmed) THEN Fail("Invalid email format")
        ELSE IF at - 1 > 64 THEN Fail("Email local part too long (max 64 characters)")
        ELSE Ok(ToLowerCase(trimmed))

\* the character class of PASSWORD_REGEX: letters, digits and punctuation
PasswordChars ==
    Alphanumeric \cup {"!", "@", "#", "$", "%", "^", "&", "*", "(", ")", "_", "+",
                       "-", "=", "[", "]", "{", "}", ";", "'", ":", "\"", "\\",
                       "|", ",", ".", "<", ">", "/", "?"}

\* PASSWORD_REGEX.test(password)
MatchesPasswordRegex(password) ==
    /\ \E i \in 1..Len(password) : password[i] \in LowerLetters \cup UpperLetters
    /\ \E i \in 1..Len(password) : password[i] \in Digits
    /\ \A i \in 1..Len(password) : password[i] \in PasswordChars
    /\ Len(password) >= 8

EmailUser == <<"u", "s", "e", "r", "@", "e", "x", "a", "m", "p", "l", "e", ".", "c", "o", "m">>
EmailUserUpper == <<"U", "s", "e", "r", "@", "E", "x", "a", "m", "p", "l", "e", ".", "c", "o", "m">>
EmailUserPadded == <<" ", "u", "s", "e", "r", "@", "e", "x", "a", "m", "p", "l", "e", ".", "c", "o", "m">>
EmailOther == <<"o", "t", "h", "e", "r", "@", "e", "x", "a", "m", "p", "l", "e", ".", "c", "o", "m">>
EmailInvalid == <<"i", "n", "v", "a", "l", "i", "d", "-", "e", "m", "a", "i", "l">>

PasswordSecure == <<"S", "e", "c", "u", "r", "e", "P", "a", "s", "s", "1", "2", "3", "!">>
PasswordOther == <<"W", "r", "o", "n", "g", "P", "a", "s", "s", "1", "2", "3", "!">>
PasswordWrong == <<"w", "r", "o", "n", "g">>
PasswordNoDigit == <<"p", "a", "s", "s", "w", "o", "r", "d">>

Emails == {EmailUser, EmailUserUpper, EmailUserPadded, EmailOther, EmailInvalid}

Passwords == {PasswordSecure, PasswordOther, PasswordWrong, PasswordNoDigit}

LoginCredentials == [email : Emails, password : Passwords]

\* the credentials callers present
CredentialInputs ==
    { [email |-> EmailUser, password |-> PasswordSecure],
      [email |-> EmailUser, password |-> PasswordOther],
      [email |-> EmailUser, password |-> PasswordWrong],
      [email |-> EmailUserUpper, password |-> PasswordSecure],
      [email |-> EmailUserPadded, password |-> PasswordSecure],
      [email |-> EmailOther, password |-> PasswordSecure],
      [email |-> EmailInvalid, password |-> PasswordSecure],
      [email |-> EmailInvalid, password |-> PasswordNoDigit] }

\* const users = [...]: the hash is the one of the password its comment names
users == << [email |-> EmailUser, passwordHash |-> PasswordSecure, id |-> "1"] >>

\* users.find(u => u.email.toLowerCase() === credentials.email.toLowerCase())
FindUser(email) ==
    LET hits == { i \in 1..Len(users) :
                    ToLowerCase(users[i].email) = ToLowerCase(email) }
    IN  IF hits = {} THEN <<>>
        ELSE << users[CHOOSE i \in hits : \A j \in hits : i <= j] >>

\* bcrypt.compare(password, hash)
bcryptCompare(password, hash) == password = hash

\* jwt.sign({ userId, email }, JWT_SECRET, { expiresIn: '24h' })
jwtSign(user) == [userId |-> user.id, email |-> user.email, expiresIn |-> "24h"]

TooManyAttempts == Fail("Too many attempts. Try again later.")

\* the rate limiter, had it counted the calls it turns away
RateLimitCountsRejected(store, ip, t) ==
    IF ip \in DOMAIN store
    THEN IF t - store[ip].firstAttempt < windowMs
         THEN [admit |-> store[ip].count < maxAttempts,
               store |-> [store EXCEPT ![ip].count = @ + 1]]
         ELSE [admit |-> TRUE,
               store |-> [store EXCEPT ![ip] = [count |-> 1, firstAttempt |-> t]]]
    ELSE [admit |-> TRUE,
          store |-> [i \in DOMAIN store \cup {ip} |->
                        IF i = ip THEN [count |-> 1, firstAttempt |-> t]
                        ELSE store[i]]]

\* the rate limiter, had a reset of one IP's window restarted every window
RateLimitSharedWindow(store, ip, t) ==
    IF ip \in DOMAIN store
    THEN IF t - store[ip].firstAttempt < windowMs
         THEN IF store[ip].count >= maxAttempts
              THEN [admit |-> FALSE, store |-> store]
              ELSE [admit |-> TRUE,
                    store |-> [store EXCEPT ![ip].count = @ + 1]]
         ELSE [admit |-> TRUE,
               store |-> [i \in DOMAIN store |-> [count |-> 1, firstAttempt |-> t]]]
    ELSE [admit |-> TRUE,
          store |-> [i \in DOMAIN store \cup {ip} |->
                        IF i = ip THEN [count |-> 1, firstAttempt |-> t]
                        ELSE store[i]]]

\* the rate limiter, had a call it turns away restarted the window
RateLimitExtendsBlock(store, ip, t) ==
    IF ip \in DOMAIN store
    THEN IF t - store[ip].firstAttempt < windowMs
         THEN IF store[ip].count >= maxAttempts
              THEN [admit |-> FALSE,
                    store |-> [store EXCEPT ![ip].firstAttempt = t]]
              ELSE [admit |-> TRUE,
                    store |-> [store EXCEPT ![ip].count = @ + 1]]
         ELSE [admit |-> TRUE,
               store |-> [store EXCEPT ![ip] = [count |-> 1, firstAttempt |-> t]]]
    ELSE [admit |-> TRUE,
          store |-> [i \in DOMAIN store \cup {ip} |->
                        IF i = ip THEN [count |-> 1, firstAttempt |-> t]
                        ELSE store[i]]]

\* lines 161-178: the rate limiter, on the store as it is at the call
RateLimit(store, ip, t) ==
    IF ip \in DOMAIN store
    THEN IF t - store[ip].firstAttempt < windowMs
         THEN IF store[ip].count >= maxAttempts
              THEN [admit |-> FALSE, store |-> store]
              ELSE [admit |-> TRUE,
                    store |-> [store EXCEPT ![ip].count = @ + 1]]
         ELSE [admit |-> TRUE,
               store |-> [store EXCEPT ![ip] = [count |-> 1, firstAttempt |-> t]]]
    ELSE [admit |-> TRUE,
          store |-> [i \in DOMAIN store \cup {ip} |->
                        IF i = ip THEN [count |-> 1, firstAttempt |-> t]
                        ELSE store[i]]]

\* the checks, had the password format been examined before the e-mail address
CheckCredentialsPasswordFirst(credentials) ==
    IF \/ Len(credentials.password) < PASSWORD_MIN_LENGTH
       \/ ~MatchesPasswordRegex(credentials.password)
    THEN [returns |-> TRUE,
          value |-> Fail("Password does not meet security requirements")]
    ELSE IF ~validateEmailImproved(credentials.email).success
    THEN [returns |-> TRUE, value |-> Fail("Invalid email format")]
    ELSE IF FindUser(credentials.email) = <<>>
    THEN [returns |-> TRUE, value |-> Fail("Invalid credentials")]
    ELSE [returns |-> FALSE, user |-> FindUser(credentials.email)[1]]

\* lines 180-201: the checks between the rate limiter and the await; a
\* failure is returned, otherwise the call goes on to bcrypt.compare
CheckCredentials(credentials) ==
    IF ~validateEmailImproved(credentials.email).success
    THEN [returns |-> TRUE, value |-> Fail("Invalid email format")]
    ELSE IF \/ Len(credentials.password) < PASSWORD_MIN_LENGTH
            \/ ~MatchesPasswordRegex(credentials.password)
    THEN [returns |-> TRUE,
          value |-> Fail("Password does not meet security requirements")]
    ELSE IF FindUser(credentials.email) = <<>>
    THEN [returns |-> TRUE, value |-> Fail("Invalid credentials")]
    ELSE [returns |-> FALSE, user |-> FindUser(credentials.email)[1]]

\* lines 203-216: after bcrypt.compare has resolved
VerifyPassword(credentials, user) ==
    IF ~bcryptCompare(credentials.password, user.passwordHash)
    THEN Fail("Invalid credentials")
    ELSE Ok([token |-> jwtSign(user)])

\* the outcome of the checks for each of the callers' credentials, tabulated
\* once (@@ yields the function as an explicit table)
Checked == [c \in CredentialInputs |-> CheckCredentials(c)] @@ <<>>

Responded(credentials, value) ==
    [made |-> TRUE, credentials |-> credentials, value |-> value]

\* admissions that lie less than windowMs before t
Within(times, t) == SelectSeq(times, LAMBDA a : t - a < windowMs)

\* authenticateUser, had the counter update of a call that reaches the await
\* been left until after it: the update is not in the step of the check
AuthenticateUserChecksOnly ==
    \E ip \in IPs, credentials \in CredentialInputs :
        LET rl == RateLimit(rateLimitStore, ip, now)
            checked == Checked[credentials]
        IN  /\ (rl.admit /\ ~checked.returns) => BagCardinality(awaiting) < MaxAwaiting
            /\ rateLimitStore' = IF rl.admit /\ ~checked.returns /\ ip \in DOMAIN rateLimitStore
                                 THEN rateLimitStore
                                 ELSE rl.store
            /\ latestCall' = [latestCall EXCEPT ![ip] = now]
            /\ admitted' = IF rl.admit
                           THEN [admitted EXCEPT ![ip] = Append(@, now)]
                           ELSE admitted
            /\ IF ~rl.admit
               THEN /\ response' = Responded(credentials, TooManyAttempts)
                    /\ UNCHANGED awaiting
               ELSE IF checked.returns
               THEN /\ response' = Responded(credentials, checked.value)
                    /\ UNCHANGED awaiting
               ELSE /\ awaiting' = awaiting (+) SetToBag({[credentials |-> credentials,
                                                          user |-> checked.user]})
                    /\ UNCHANGED response
            /\ UNCHANGED <<now, shipVars>>

\* authenticateUser from its entry to its first return or to its await: one
\* uninterrupted run of the event loop
AuthenticateUser ==
    \E ip \in IPs, credentials \in CredentialInputs :
        LET rl == RateLimit(rateLimitStore, ip, now)
            checked == Checked[credentials]
        IN  /\ (rl.admit /\ ~checked.returns) => BagCardinality(awaiting) < MaxAwaiting
            /\ rateLimitStore' = rl.store
            /\ latestCall' = [latestCall EXCEPT ![ip] = now]
            /\ admitted' = IF rl.admit
                           THEN [admitted EXCEPT ![ip] = Append(@, now)]
                           ELSE admitted
            /\ IF ~rl.admit
               THEN /\ response' = Responded(credentials, TooManyAttempts)
                    /\ UNCHANGED awaiting
               ELSE IF checked.returns
               THEN /\ response' = Responded(credentials, checked.value)
                    /\ UNCHANGED awaiting
               ELSE /\ awaiting' = awaiting (+) SetToBag({[credentials |-> credentials,
                                                          user |-> checked.user]})
                    /\ UNCHANGED response
            /\ UNCHANGED <<now, shipVars>>

\* the resumption, had a successful login cleared the rate limiter
AuthenticateUserResumeResets ==
    \E c \in BagToSet(awaiting) :
        LET value == VerifyPassword(c.credentials, c.user)
        IN  /\ response' = Responded(c.credentials, value)
            /\ awaiting' = awaiting (-) SetToBag({c})
            /\ rateLimitStore' = IF value.success THEN EmptyStore ELSE rateLimitStore
            /\ UNCHANGED <<now, admitted, latestCall, shipVars>>

\* a suspended call resumes after its await, in any order
AuthenticateUserResume ==
    \E c \in BagToSet(awaiting) :
            /\ response' = Responded(c.credentials,
                                     VerifyPassword(c.credentials, c.user))
            /\ awaiting' = awaiting (-) SetToBag({c})
            /\ UNCHANGED <<now, rateLimitStore, admitted, latestCall, shipVars>>

\* Date.now() moves on
Tick ==
    /\ now + TickMs <= MaxTicks * TickMs
    /\ now' = now + TickMs
    /\ admitted' = [ip \in IPs |-> Within(admitted[ip], now')]
    /\ UNCHANGED <<rateLimitStore, awaiting, response, latestCall, shipVars>>

AuthInit ==
    /\ AuthStart
    /\ pc = "idle"
    /\ call = [fn |-> "authenticateUser", arg |-> <<>>]
    /\ result = Pending
    /\ ran = {}
    /\ prev = NoCall

AuthNext ==
    \/ AuthenticateUser
    \/ AuthenticateUserResume
    \/ Tick

AuthSpec == AuthInit /\ [][AuthNext]_vars

(***************************************************************************)
(* Properties of authenticateUser                                          *)
(***************************************************************************)

\* a call that the rate limiter turned away has just returned
RateLimited == response.made /\ response.value = TooManyAttempts

\* C23: at most 5 attempts per 15 minutes per IP: in every 15-minute interval
\* of time at most 5 calls of one IP pass the rate limiter (admitted holds the
\* admissions of the 15 minutes that end now).
C23_AtMostFivePerInterval ==
    \A ip \in IPs : Len(admitted[ip]) <= maxAttempts

\* the password is the password of no stored user with the e-mail address
NotTheUsersPassword(credentials) ==
    \A i \in 1..Len(users) :
        ToLowerCase(users[i].email) = ToLowerCase(credentials.email) =>
            ~bcryptCompare(credentials.password, users[i].passwordHash)

\* C24: a call that is not rate-limited fails with "Invalid credentials" when
\* its e-mail address is well formed and its password is not the user's (the
\* documented example is the password "wrong"), and with "Invalid email
\* format" when its e-mail address is malformed.
C24_DocumentedErrors ==
    (response.made /\ ~RateLimited) =>
        LET c == response.credentials
        IN  /\ ( validateEmailImproved(c.email).success
                 /\ NotTheUsersPassword(c) ) =>
                   response.value = Fail("Invalid credentials")
            /\ ~validateEmailImproved(c.email).success =>
                   response.value = Fail("Invalid email format")

\* C25: every entry of rateLimitStore has 1 <= count <= 5 and a firstAttempt
\* that is no later than the latest call of its IP, and an IP that never
\* called has no entry.
C25_StoreEntriesWellFormed ==
    /\ \A ip \in DOMAIN rateLimitStore :
          /\ 1 <= rateLimitStore[ip].count
          /\ rateLimitStore[ip].count <= 5
          /\ rateLimitStore[ip].firstAttempt <= latestCall[ip]
    /\ \A ip \in IPs : latestCall[ip] = -1 => ip \notin DOMAIN rateLimitStore

\* one IP has used up its window, called again later and was turned away,
\* while the other IP never called
C25_Witness ==
    /\ RateLimited
    /\ \E ip \in DOMAIN rateLimitStore :
          /\ rateLimitStore[ip].count = maxAttempts
          /\ rateLimitStore[ip].firstAttempt < latestCall[ip]
    /\ \E ip \in IPs : latestCall[ip] = -1

\* rateLimitStore[ip], or nothing when the IP has no entry
Entry(store, ip) == IF ip \in DOMAIN store THEN <<store[ip]>> ELSE <<>>

\* C26: a call that is turned away as rate-limited leaves rateLimitStore as it
\* was, and a call from one IP never changes the entry of another: the entry
\* of an IP changes only in a step that admits a call from that IP.
C26_StoreFrame ==
    [][ /\ \A b \in IPs :
              Len(admitted'[b]) <= Len(admitted[b]) =>
                  Entry(rateLimitStore', b) = Entry(rateLimitStore, b)
        /\ (RateLimited' /\ response' # response) =>
              rateLimitStore' = rateLimitStore ]_vars

\* both IPs have an entry, one of them was just turned away at its limit and
\* the other is part-way through its window
C26_Witness ==
    /\ RateLimited
    /\ DOMAIN rateLimitStore = IPs
    /\ \E a, b \in IPs :
          /\ rateLimitStore[a].count = maxAttempts
          /\ latestCall[a] = now
          /\ rateLimitStore[b].count < maxAttempts

\* C27: time alone ends a block.  The first call of an IP that arrives
\* windowMs or more after the firstAttempt of its entry is admitted and leaves
\* the entry at count 1 with firstAttempt the time of the call; no other step
\* moves firstAttempt, so a call that is turned away does not prolong the
\* block, and a call is turned away only less than windowMs after the
\* firstAttempt of its window.
C27_UnblockedByTimeAlone ==
    [][ \A ip \in DOMAIN rateLimitStore :
          LET rl == rateLimitStore[ip]
          IN  /\ (now - rl.firstAttempt >= windowMs
                  /\ latestCall'[ip] # latestCall[ip]) =>
                    /\ rateLimitStore'[ip] = [count |-> 1, firstAttempt |-> now]
                    /\ admitted'[ip] = Append(admitted[ip], now)
              /\ rateLimitStore'[ip].firstAttempt # rl.firstAttempt =>
                    now - rl.firstAttempt >= windowMs
              /\ ( latestCall'[ip] # latestCall[ip]
                   /\ admitted'[ip] = admitted[ip] ) =>
                    /\ RateLimited'
                    /\ now - rl.firstAttempt < windowMs ]_vars

\* an IP that had used up the window that began windowMs ago (four of its five
\* admissions are still less than windowMs old) has just been admitted again,
\* into a new window
C27_Witness ==
    \E ip \in DOMAIN rateLimitStore :
        /\ rateLimitStore[ip] = [count |-> 1, firstAttempt |-> now]
        /\ Len(SelectSeq(admitted[ip], LAMBDA a : a < now)) = maxAttempts - 1
        /\ latestCall[ip] = now

\* the IP has an entry whose window is still open at time t
InWindow(store, ip, t) ==
    ip \in DOMAIN store /\ t - store[ip].firstAttempt < windowMs

\* a suspended call resumes in this step
Resumes == BagCardinality(awaiting') < BagCardinality(awaiting)

\* C28: every admitted call uses up one attempt of its IP's window, whatever
\* it goes on to return; the return of a call, a successful login included,
\* leaves the counter alone; and once a window has had five admitted calls,
\* the next call in it is turned away.
C28_EveryAdmittedCallCounts ==
    [][ /\ \A ip \in IPs :
              /\ Len(admitted'[ip]) > Len(admitted[ip]) =>
                    rateLimitStore'[ip].count =
                        IF InWindow(rateLimitStore, ip, now)
                        THEN rateLimitStore[ip].count + 1
                        ELSE 1
              /\ ( InWindow(rateLimitStore, ip, now)
                   /\ Len(SelectSeq(admitted[ip],
                                    LAMBDA a : a >= rateLimitStore[ip].firstAttempt))
                          >= 5 ) =>
                    Len(admitted'[ip]) <= Len(admitted[ip])
        /\ Resumes => rateLimitStore' = rateLimitStore ]_vars

\* a login has just succeeded for an IP, the only one that ever called, whose
\* window stays used up
C28_Witness ==
    /\ response.made /\ response.value.success
    /\ awaiting = EmptyBag
    /\ \E ip \in IPs :
          /\ DOMAIN rateLimitStore = {ip}
          /\ rateLimitStore[ip].count = maxAttempts
          /\ InWindow(rateLimitStore, ip, now)

\* the admissions of the IP since the firstAttempt of its entry
AdmittedInWindow(ip) ==
    SelectSeq(admitted[ip], LAMBDA a : a >= rateLimitStore[ip].firstAttempt)

\* C29: the rate-limit check and the counter update of a call are one step,
\* taken before the call suspends at bcrypt.compare.  So however calls of an
\* IP interleave at the await, the count of an open window is exactly the
\* number of calls admitted into it, calls still suspended included, and it
\* never exceeds 5.
C29_CheckAndCountAtomic ==
    \A ip \in DOMAIN rateLimitStore :
        InWindow(rateLimitStore, ip, now) =>
            /\ Len(AdmittedInWindow(ip)) = rateLimitStore[ip].count
            /\ Len(AdmittedInWindow(ip)) <= 5

\* two calls of one IP, the only one that ever called, are suspended at the
\* await while a further call of it has been turned away at count 5
C29_Witness ==
    /\ BagCardinality(awaiting) >= 2
    /\ RateLimited
    /\ \E ip \in IPs :
          /\ DOMAIN rateLimitStore = {ip}
          /\ rateLimitStore[ip].count = maxAttempts

\* the checks of a call in the order e-mail format, password format, user
\* lookup, password verification, with the error each one gives
OrderedChecks(c) ==
    << [passes |-> validateEmailImproved(c.email).success,
        error |-> "Invalid email format"],
       [passes |-> Len(c.password) >= 8 /\ MatchesPasswordRegex(c.password),
        error |-> "Password does not meet security requirements"],
       [passes |-> \E i \in 1..Len(users) :
                       ToLowerCase(users[i].email) = ToLowerCase(c.email),
        error |-> "Invalid credentials"],
       [passes |-> ~NotTheUsersPassword(c),
        error |-> "Invalid credentials"] >>

\* the positions of the checks that the credentials fail, tabulated once per
\* credentials
FailingChecks ==
    [c \in CredentialInputs |->
        {k \in 1..4 : ~OrderedChecks(c)[k].passes}] @@ <<>>

\* the error of the first check that fails
FirstFailure(c) ==
    OrderedChecks(c)[CHOOSE k \in FailingChecks[c] :
                        \A j \in FailingChecks[c] : k <= j].error

ExpectedErrors == [c \in CredentialInputs |->
                      IF FailingChecks[c] = {} THEN "none" ELSE FirstFailure(c)] @@ <<>>

====
